---- MODULE Spec2Model ----
(***************************************************************************)
(* AIOPS-ZABBIX (src/app/main.py): the polling loop, the dedup and         *)
(* enrichment pipeline over the three process-wide state structures, the   *)
(* snapshot aggregator and the websocket broadcast hub.                    *)
(*                                                                         *)
(* Texts (acknowledgement messages, summaries, actions) are sequences of   *)
(* tokens; the literals "IA:" and "| CMD:" are single tokens, so substring *)
(* search, split, replace and strip are computed on the token sequence.    *)
(***************************************************************************)
EXTENDS Integers, Sequences, FiniteSets, TLC

\* ------------------------------------------------------------------ bounds
MaxTriggers == 2    \* longest trigger list one fetch returns
MaxExtAcks == 2     \* acknowledgements other actors attached to an event
MaxRestarts == 1    \* process restarts (LifeSpec)
NumSockets == 2     \* websocket objects that may ever connect (HubSpec)
MaxText == 2        \* tokens of a summary or an action (MarkerSpec)

\* ------------------------------------------------------------- value sets
EventIds == {"E1", "E2"}
None == "None"                       \* Python None / a missing key
NoText == <<None>>                   \* None where a text is expected
NoDash == <<>>                       \* None where a snapshot is expected
Token == "tok"                       \* a token the backend handed out
Sockets == 1..NumSockets

IA == "IA:"
CMD == "| CMD:"
SP == " "
NA == <<"N/A">>
Indisponivel == <<"Indisponivel">>
ErroIA == <<"Erro", SP, "IA">>
Processando == <<"Processando...">>    \* the text after the lightning sign
Aguardando == <<"Aguardando...">>

\* ---------------------------------------------------------------- texts
Range(s) == {s[i] : i \in 1..Len(s)}

SeqsUpTo(S, n) == UNION {[1..k -> S] : k \in 0..n}

\* "IA:" in message
ContainsIA(msg) == \E i \in 1..Len(msg) : msg[i] = IA

\* str.split(sep): the parts between the occurrences of sep
RECURSIVE Split(_, _)
Split(msg, sep) ==
  IF \A i \in 1..Len(msg) : msg[i] # sep
  THEN <<msg>>
  ELSE LET k == CHOOSE i \in 1..Len(msg) :
                  msg[i] = sep /\ \A j \in 1..(i - 1) : msg[j] # sep
       IN <<SubSeq(msg, 1, k - 1)>> \o Split(SubSeq(msg, k + 1, Len(msg)), sep)

\* str.replace(tok, ''): every occurrence removed
Replace(msg, tok) == SelectSeq(msg, LAMBDA x : x # tok)

\* str.strip(): leading and trailing whitespace removed
RECURSIVE Strip(_)
Strip(msg) ==
  IF msg = <<>> THEN msg
  ELSE IF Head(msg) = SP THEN Strip(Tail(msg))
  ELSE IF msg[Len(msg)] = SP THEN Strip(SubSeq(msg, 1, Len(msg) - 1))
  ELSE msg

\* f"IA: {summary} | CMD: {action}"
FormatMarker(summary, action) ==
  <<IA, SP>> \o summary \o <<SP, CMD, SP>> \o action

\* A parse that takes the last part as the action, separator or not.
ParseAckLastPart(msg) ==
  LET parts == Split(msg, CMD)
  IN [summary |-> Strip(Replace(parts[1], IA)),
      action |-> Strip(parts[Len(parts)])]

\* The parse without the strip of the summary.
ParseAckUnstripped(msg) ==
  LET parts == Split(msg, CMD)
  IN [summary |-> Replace(parts[1], IA),
      action |-> IF Len(parts) > 1 THEN Strip(parts[2]) ELSE NA]

\* the dict process_queue builds from an acknowledgement that contains "IA:"
ParseAck(msg) ==
  LET parts == Split(msg, CMD)
  IN [summary |-> Strip(Replace(parts[1], IA)),
      action |-> IF Len(parts) > 1 THEN Strip(parts[2]) ELSE NA]

\* ------------------------------------------------- well-formed markers
\* A text a summary or an action can be: not empty, without the two
\* literals, without surrounding whitespace.
PlainText(txt) ==
  /\ txt # <<>>
  /\ \A i \in 1..Len(txt) : txt[i] \notin {IA, CMD, None}
  /\ Head(txt) # SP
  /\ txt[Len(txt)] # SP

\* The position of the separator of a well-formed marker, else 0.
SepAt(msg) ==
  IF \E k \in 1..Len(msg) : msg[k] = CMD
  THEN CHOOSE k \in 1..Len(msg) : msg[k] = CMD
  ELSE 0

\* "IA: <summary> | CMD: <action>"
MarkerSummary(msg) == SubSeq(msg, 3, SepAt(msg) - 2)
MarkerAction(msg) == SubSeq(msg, SepAt(msg) + 2, Len(msg))
WellFormed(msg) ==
  /\ Len(msg) >= 7
  /\ msg[1] = IA
  /\ msg[2] = SP
  /\ Cardinality({k \in 1..Len(msg) : msg[k] = CMD}) = 1
  /\ SepAt(msg) >= 5
  /\ SepAt(msg) + 2 <= Len(msg)
  /\ msg[SepAt(msg) - 1] = SP
  /\ msg[SepAt(msg) + 1] = SP
  /\ PlainText(MarkerSummary(msg))
  /\ PlainText(MarkerAction(msg))

\* What process_queue found when it first read the acknowledgements of an
\* id: the first message that contains "IA:", and the first well-formed
\* marker (NoText: there is none).
NothingSeen == [first |-> NoText, marker |-> NoText]
Observed(acks) ==
  [first |-> IF \E i \in 1..Len(acks) : ContainsIA(acks[i])
             THEN acks[CHOOSE i \in 1..Len(acks) :
                         ContainsIA(acks[i]) /\
                         \A j \in 1..(i - 1) : ~ContainsIA(acks[j])]
             ELSE NoText,
   marker |-> IF \E i \in 1..Len(acks) : WellFormed(acks[i])
              THEN acks[CHOOSE i \in 1..Len(acks) :
                          WellFormed(acks[i]) /\
                          \A j \in 1..(i - 1) : ~WellFormed(acks[j])]
              ELSE NoText]

\* ------------------------------------------------------------- the inputs
\* What other actors (operators, another instance of this program) wrote on
\* an event: a plain note, "MEDIA: sent" (which contains "IA:"), and the
\* marker "IA: cpu spike | CMD: top".
NoteMsg == <<"ok">>
MediaMsg == <<"MED", IA, SP, "sent">>
CpuSpike == <<"cpu", SP, "spike">>
Top == <<"top">>
ExtMarker == FormatMarker(CpuSpike, Top)
\* The acknowledgements of an event as other actors left them: up to
\* MaxExtAcks of the three messages, in any order, none of them twice.
ExtAckLists ==
  {l \in SeqsUpTo({NoteMsg, MediaMsg, ExtMarker}, MaxExtAcks) :
     \A i, j \in 1..Len(l) : l[i] = l[j] => i = j}

\* A trigger of the trigger.get reply, by the fields the program reads:
\* the event id of lastEvent (None: no lastEvent, or no eventid in it),
\* priority, and at most one defect: an empty host list, or a tag without
\* a 'value' key.
Severities == {"1", "2", "3", "4", "5"}
Defects == {"none", "no_hosts", "tag_no_value"}
AllTriggers ==
  [eid : EventIds \cup {None}, defect : Defects, priority : Severities]

\* The triggers of the trigger.get replies, at one severity. A trigger
\* without event id is skipped by process_queue whatever else it holds, so
\* it comes in one shape.
Triggers ==
  {t \in AllTriggers :
     t.priority = "5" /\ (t.eid = None => t.defect = "none")}

\* The trigger.get replies: up to MaxTriggers triggers, the same event id
\* more than once or not, at most one of them malformed.
TriggerLists ==
  {l \in SeqsUpTo(Triggers, MaxTriggers) :
     \A i, j \in 1..Len(l) :
       (l[i].defect # "none" /\ l[j].defect # "none") => i = j}

\* What the enrichment service can answer: a JSON object with both keys, a
\* JSON object without them, JSON that is no object, or a failure (network,
\* invalid JSON).
DiskFull == <<"disk", SP, "full">>
DfH == <<"df", SP, "-h">>
AIResponses ==
  {[kind |-> "dict", analysis |-> DiskFull, command |-> DfH],
   [kind |-> "dict", analysis |-> NoText, command |-> NoText],
   [kind |-> "nondict", analysis |-> NoText, command |-> NoText],
   [kind |-> "fail", analysis |-> NoText, command |-> NoText]}

\* ------------------------------------------------------------------ state
VARIABLES
  zabbix_auth_token,    \* None or the cached token
  processing_events,    \* the in-flight set
  handled_events,       \* the handled set
  ai_memory_cache,      \* the result map: event id -> [summary, action]
  tasks,                \* the run_ai_pipeline tasks created and not ended
  pc,                   \* where loop() is suspended
  fetched,              \* this cycle's trigger.get reply: its length and the
                        \* defects its triggers have
  dash,                 \* <<the snapshot format_dashboard returned>>, or NoDash
  posted,               \* backend: the marker comments recorded on each event
  ws,                   \* each websocket handler: new, accepting, open, closed
  active_connections,   \* the subscriber list of the ConnectionManager
  bCopy, bIdx,          \* broadcast: the copied list and the loop position
  bSent, bFailed,       \* broadcast: whose send returned, whose send raised
  bDisc,                \* the sockets disconnect() was called for by their
                        \* own handler while the broadcast was running
  bAfter,               \* active_connections when the last send of the
                        \* broadcast ended and broadcast returned
  triggersArg,          \* the argument of a lone format_dashboard call
  started,              \* history: tasks created per event id, this lifetime
  firstSeen,            \* history: what the acknowledgements of an id held
                        \* when process_queue first read them
  postFail,             \* history: ids whose comment post raised
  prevDone,             \* history: ids whose task completed before a restart
  written,              \* history: the result the recorded marker comment of
                        \* an id was written from
  lifetime              \* restarts so far

storeVars == <<processing_events, handled_events, ai_memory_cache, tasks,
               started, firstSeen>>
hubVars == <<ws, active_connections, bCopy, bIdx, bSent, bFailed, bDisc, bAfter>>
backendVars == <<posted, postFail, prevDone, lifetime, triggersArg, written>>
vars == <<zabbix_auth_token, processing_events, handled_events,
          ai_memory_cache, tasks, pc, fetched, dash, posted, ws,
          active_connections, bCopy, bIdx, bSent, bFailed, bDisc, bAfter,
          triggersArg, started, firstSeen, postFail, prevDone, written,
          lifetime>>

NoReply == [n |-> 0, defects |-> {}]
NoResult == [summary |-> NoText, action |-> NoText]

Init ==
  /\ zabbix_auth_token = None
  /\ processing_events = {}
  /\ handled_events = {}
  /\ ai_memory_cache = <<>>
  /\ tasks = {}
  /\ pc = "start"
  /\ fetched = NoReply
  /\ dash = NoDash
  /\ posted = [e \in EventIds |-> <<>>]
  /\ ws = [s \in Sockets |-> "new"]
  /\ active_connections = <<>>
  /\ bCopy = <<>>
  /\ bIdx = 0
  /\ bSent = {}
  /\ bFailed = {}
  /\ bDisc = {}
  /\ bAfter = <<>>
  /\ triggersArg = <<>>
  /\ started = [e \in EventIds |-> 0]
  /\ firstSeen = [e \in EventIds |-> NothingSeen]
  /\ postFail = {}
  /\ prevDone = {}
  /\ written = [e \in EventIds |-> NoResult]
  /\ lifetime = 0

\* ----------------------------------------------------------- process_queue
\* The state process_queue works on; raised: an exception left the loop.
Store ==
  [proc |-> processing_events, hand |-> handled_events,
   cache |-> ai_memory_cache, tasks |-> tasks, started |-> started,
   from |-> firstSeen, raised |-> FALSE]

\* The skip test without the result map.
SkippedUnlessResult(st, eid) ==
  \/ eid = None
  \/ eid \in st.proc
  \/ eid \in st.hand

\* The skip test without the handled set.
SkippedUnlessHandled(st, eid) ==
  \/ eid = None
  \/ eid \in st.proc
  \/ eid \in DOMAIN st.cache

\* lines 148-149: the trigger is skipped
Skipped(st, eid) ==
  \/ eid = None
  \/ eid \in st.proc
  \/ eid \in st.hand
  \/ eid \in DOMAIN st.cache

\* lines 152-153: the first acknowledgement whose message contains "IA:"
FirstIA(acks) ==
  IF \E i \in 1..Len(acks) : ContainsIA(acks[i])
  THEN CHOOSE i \in 1..Len(acks) :
         ContainsIA(acks[i]) /\ \A j \in 1..(i - 1) : ~ContainsIA(acks[j])
  ELSE 0

\* line 157: the result map gets the parsed acknowledgement
Recover(st, eid, acks) ==
  [st EXCEPT !.cache = (eid :> ParseAck(acks[FirstIA(acks)])) @@ @]

\* line 164: evaluating t['hosts'][0]['name'], an argument of
\* run_ai_pipeline, raises IndexError
ArgsRaise(t) == t.defect = "no_hosts"

\* A dispatch that marks the id in flight but not handled.
DispatchWithoutHandled(st, t) ==
  LET marked == [st EXCEPT !.proc = @ \cup {t.eid}]
  IN IF ArgsRaise(t)
     THEN [marked EXCEPT !.raised = TRUE]
     ELSE [marked EXCEPT
             !.tasks = @ \cup {[eid |-> t.eid, n |-> st.started[t.eid] + 1,
                                pc |-> "analyze",
                                tags |-> IF t.defect = "tag_no_value"
                                         THEN "no_value" ELSE "ok",
                                summary |-> NoText, action |-> NoText]},
             !.started = [@ EXCEPT ![t.eid] = @ + 1]]

\* lines 162-164: both sets get the id, then the task is created; evaluating
\* the arguments of the task can raise, after the two insertions
Dispatch(st, t) ==
  LET marked == [st EXCEPT !.proc = @ \cup {t.eid}, !.hand = @ \cup {t.eid}]
  IN IF ArgsRaise(t)
     THEN [marked EXCEPT !.raised = TRUE]
     ELSE [marked EXCEPT
             !.tasks = @ \cup {[eid |-> t.eid, n |-> st.started[t.eid] + 1,
                                pc |-> "analyze",
                                tags |-> IF t.defect = "tag_no_value"
                                         THEN "no_value" ELSE "ok",
                                summary |-> NoText, action |-> NoText]},
             !.started = [@ EXCEPT ![t.eid] = @ + 1]]

\* lines 146-164: one iteration of the loop; acks is the acknowledges list
\* of the trigger's lastEvent
Examine(st, t, acks) ==
  IF Skipped(st, t.eid) THEN st
  ELSE LET seen == [st EXCEPT !.from = [@ EXCEPT ![t.eid] = Observed(acks)]]
       IN IF FirstIA(acks) # 0 THEN Recover(seen, t.eid, acks)
          ELSE Dispatch(seen, t)

\* lines 143-164: the loop over the triggers, left by the first exception
RECURSIVE ProcessQueue(_, _, _, _)
ProcessQueue(st, triggers, acksOf, i) ==
  IF i > Len(triggers) \/ st.raised THEN st
  ELSE ProcessQueue(Examine(st, triggers[i], acksOf[i]), triggers, acksOf, i + 1)

\* The ids of a trigger list that process_queue has not seen yet: the only
\* ones whose acknowledgements it reads.
Unseen(triggers) ==
  {triggers[i].eid : i \in 1..Len(triggers)} \
    ({None} \cup processing_events \cup handled_events \cup DOMAIN ai_memory_cache)

\* lastEvent.acknowledges of each trigger of the reply: what other actors
\* wrote (ext), then the comments this program got recorded
AcksOf(triggers, ext) ==
  [i \in 1..Len(triggers) |->
     IF triggers[i].eid \in DOMAIN ext
     THEN ext[triggers[i].eid] \o posted[triggers[i].eid]
     ELSE <<>>]

\* ------------------------------------------------------- format_dashboard
\* An entry that does not look at the in-flight set.
EntryWithoutInFlight(t, cache, proc) ==
  [id |-> t.eid,
   severity |-> t.priority,
   ai_summary |-> IF t.eid \in DOMAIN cache THEN cache[t.eid].summary
                  ELSE Aguardando,
   ai_action |-> IF t.eid \in DOMAIN cache THEN cache[t.eid].action
                 ELSE NoText]

\* lines 200-202 and 204-209: the entry of one trigger, read from the
\* result map and the in-flight set
Entry(t, cache, proc) ==
  [id |-> t.eid,
   severity |-> t.priority,
   ai_summary |-> IF t.eid \in DOMAIN cache THEN cache[t.eid].summary
                  ELSE IF t.eid \in proc THEN Processando
                  ELSE Aguardando,
   ai_action |-> IF t.eid \in DOMAIN cache THEN cache[t.eid].action
                 ELSE NoText]

\* line 203: tag['value'] raises KeyError
FormatRaises(t) == t.defect = "tag_no_value"

\* Only the highest severity counted.
IsCriticalHighestOnly(t) == t.priority = "5"

\* line 199: the trigger counts as critical
IsCritical(t) == t.priority \in {"4", "5"}

\* lines 197-209: the loop, left by the first exception
RECURSIVE FormatLoop(_, _, _, _, _)
FormatLoop(triggers, cache, proc, i, acc) ==
  IF i > Len(triggers) \/ acc.raised THEN acc
  ELSE LET t == triggers[i]
       IN FormatLoop(triggers, cache, proc, i + 1,
            IF FormatRaises(t)
            THEN [acc EXCEPT !.raised = TRUE]
            ELSE [acc EXCEPT
                    !.total = @ + 1,
                    !.critical = IF IsCritical(t) THEN @ + 1 ELSE @,
                    !.data = Append(@, Entry(t, cache, proc))])

\* A snapshot for every list the loop does not raise on, the empty one too.
FormatDashboardOfAny(triggers, cache, proc) ==
  LET acc == FormatLoop(triggers, cache, proc, 1,
               [raised |-> FALSE, total |-> 0, critical |-> 0, data |-> <<>>])
  IN IF acc.raised
     THEN [raised |-> TRUE, value |-> NoDash]
     ELSE [raised |-> FALSE,
           value |-> <<[stats |-> [total |-> acc.total,
                                   critical |-> acc.critical],
                        data |-> acc.data]>>]

\* lines 193-210: None for an empty list, else the snapshot; raised when
\* the loop raised
FormatDashboard(triggers, cache, proc) ==
  IF triggers = <<>>
  THEN [raised |-> FALSE, value |-> NoDash]
  ELSE LET acc == FormatLoop(triggers, cache, proc, 1,
                    [raised |-> FALSE, total |-> 0, critical |-> 0, data |-> <<>>])
       IN IF acc.raised
          THEN [raised |-> TRUE, value |-> NoDash]
          ELSE [raised |-> FALSE,
                value |-> <<[stats |-> [total |-> acc.total,
                                        critical |-> acc.critical],
                             data |-> acc.data]>>]

\* ------------------------------------------------------- run_ai_pipeline
\* lines 140-141: the finally clause, and the task is over
Finally(tk) ==
  /\ processing_events' = processing_events \ {tk.eid}
  /\ tasks' = tasks \ {tk}

\* lines 114-124: what analyze_with_ai returns for an answer of the service
AnalyzeWithAI(resp) ==
  IF resp.kind = "fail"
  THEN [kind |-> "dict", analysis |-> ErroIA, command |-> NA]
  ELSE resp

\* lines 130-131: ai_data.get(key, default)
Get(value, default) == IF value = NoText THEN default ELSE value

\* line 134: the result is stored
StoreResult(eid, summary, action) ==
  (eid :> [summary |-> summary, action |-> action]) @@ ai_memory_cache

\* line 100: post_zabbix_comment returns at once, without posting
PostSkipped == zabbix_auth_token = None

\* lines 127-136: the task runs from its start to its next suspension: the
\* tags are formatted (line 112, outside the try of analyze_with_ai), the
\* service answers, the result is stored and the comment post is begun
AnalyzeReturn(tk, resp) ==
  /\ tk \in tasks
  /\ tk.pc = "analyze"
  /\ LET ai_data == AnalyzeWithAI(resp)
         summary == Get(ai_data.analysis, Indisponivel)
         action == Get(ai_data.command, NA)
     IN IF tk.tags = "no_value" \/ ai_data.kind # "dict"
        THEN /\ Finally(tk)
             /\ UNCHANGED ai_memory_cache
        ELSE /\ ai_memory_cache' = StoreResult(tk.eid, summary, action)
             /\ tasks' = (tasks \ {tk}) \cup
                  {[tk EXCEPT !.summary = summary, !.action = action,
                              !.pc = IF PostSkipped THEN "notify" ELSE "post"]}
             /\ UNCHANGED processing_events
  /\ UNCHANGED <<zabbix_auth_token, handled_events, pc, fetched, dash,
                 started, firstSeen>>
  /\ UNCHANGED backendVars
  /\ UNCHANGED hubVars

\* lines 101-107 and 136-138: the comment post ends, recorded by the backend
\* or raising (False is returned), and the notification is begun
PostReturn(tk, recorded) ==
  /\ tk \in tasks
  /\ tk.pc = "post"
  /\ IF recorded
     THEN /\ posted' = [posted EXCEPT
                ![tk.eid] = Append(@, FormatMarker(tk.summary, tk.action))]
          /\ written' = [written EXCEPT
                ![tk.eid] = [summary |-> tk.summary, action |-> tk.action]]
          /\ UNCHANGED postFail
     ELSE /\ postFail' = postFail \cup {tk.eid}
          /\ UNCHANGED <<posted, written>>
  /\ tasks' = (tasks \ {tk}) \cup {[tk EXCEPT !.pc = "notify"]}
  /\ UNCHANGED <<zabbix_auth_token, processing_events, handled_events,
                 ai_memory_cache, pc, fetched, dash, started, firstSeen,
                 prevDone, lifetime, triggersArg>>
  /\ UNCHANGED hubVars

\* lines 72-88 and 138-141: send_telegram_alert ends (it swallows its own
\* failures) and the finally clause runs
NotifyReturn(tk) ==
  /\ tk \in tasks
  /\ tk.pc = "notify"
  /\ Finally(tk)
  /\ UNCHANGED <<zabbix_auth_token, handled_events, ai_memory_cache, pc,
                 fetched, dash, started, firstSeen>>
  /\ UNCHANGED backendVars
  /\ UNCHANGED hubVars

\* ------------------------------------------------------------ the hub
\* A disconnect that removes nothing.
DisconnectKeeps(connections, s) == connections

\* lines 47-49: disconnect(websocket)
Disconnect(connections, s) == SelectSeq(connections, LAMBDA c : c # s)

\* lines 50-51: broadcast(message) copies the subscriber list and sends to
\* the first of them; with no subscriber it returns at once
BroadcastCall(message) ==
  /\ dash' = message
  /\ bCopy' = active_connections
  /\ bSent' = {}
  /\ bFailed' = {}
  /\ bDisc' = {}
  /\ bIdx' = 1
  /\ bAfter' = <<>>
  /\ pc' = IF active_connections = <<>> THEN "sleep" ELSE "broadcast"
  /\ UNCHANGED <<ws, active_connections>>

\* lines 52-55: a send ends; when it raised the subscriber is disconnected;
\* after the last one broadcast returns and the loop sleeps. A send to a
\* socket whose handler has ended raises.
BroadcastSend(ok) ==
  /\ pc = "broadcast"
  /\ LET c == bCopy[bIdx]
         after == IF ok THEN active_connections
                  ELSE Disconnect(active_connections, c)
     IN /\ ok => ws[c] = "open"
        /\ active_connections' = after
        /\ bSent' = IF ok THEN bSent \cup {c} ELSE bSent
        /\ bFailed' = IF ok THEN bFailed ELSE bFailed \cup {c}
        /\ bAfter' = IF bIdx = Len(bCopy) THEN after ELSE bAfter
  /\ bIdx' = bIdx + 1
  /\ pc' = IF bIdx = Len(bCopy) THEN "sleep" ELSE "broadcast"
  /\ UNCHANGED <<zabbix_auth_token, fetched, dash, ws, bCopy, bDisc>>
  /\ UNCHANGED storeVars
  /\ UNCHANGED backendVars

\* lines 252-259 and 44-45: a viewer opens /ws with the cookie; the handler
\* awaits accept()
WsAccept(s) ==
  /\ ws[s] = "new"
  /\ ws' = [ws EXCEPT ![s] = "accepting"]
  /\ UNCHANGED <<zabbix_auth_token, pc, fetched, dash, active_connections,
                 bCopy, bIdx, bSent, bFailed, bDisc, bAfter>>
  /\ UNCHANGED storeVars
  /\ UNCHANGED backendVars

\* line 46: accept() returned; the socket joins the subscriber list
ConnectAppend(s) ==
  /\ ws[s] = "accepting"
  /\ ws' = [ws EXCEPT ![s] = "open"]
  /\ active_connections' = Append(active_connections, s)
  /\ UNCHANGED <<zabbix_auth_token, pc, fetched, dash, bCopy, bIdx, bSent,
                 bFailed, bDisc, bAfter>>
  /\ UNCHANGED storeVars
  /\ UNCHANGED backendVars

\* lines 260-264 and 47-49: receive_text raises (the viewer left); the handler calls
\* disconnect and ends
WsDisconnect(s) ==
  /\ ws[s] = "open"
  /\ ws' = [ws EXCEPT ![s] = "closed"]
  /\ active_connections' = Disconnect(active_connections, s)
  /\ bDisc' = IF pc = "broadcast" THEN bDisc \cup {s} ELSE bDisc
  /\ UNCHANGED <<zabbix_auth_token, pc, fetched, dash, bCopy, bIdx, bSent,
                 bFailed, bAfter>>
  /\ UNCHANGED storeVars
  /\ UNCHANGED backendVars

\* ------------------------------------------------------------ the loop
\* What a cycle's reply holds, for the record
ReplyOf(triggers) ==
  [n |-> Len(triggers),
   defects |-> {triggers[i].defect : i \in 1..Len(triggers)} \ {"none"}]

\* A loop whose cycle has no except clause: an exception of
\* format_dashboard ends loop().
AggregateUncaught(returned, cache, proc) ==
  LET r == FormatDashboard(returned, cache, proc)
  IN IF r.raised
     THEN /\ pc' = "stopped"
          /\ dash' = NoDash
          /\ UNCHANGED hubVars
     ELSE IF r.value = NoDash
     THEN /\ pc' = "sleep"
          /\ dash' = NoDash
          /\ UNCHANGED hubVars
     ELSE BroadcastCall(r.value)

\* lines 217-219: format_dashboard on what fetch_data returned, read from
\* the result map and the in-flight set as they are then, and broadcast when
\* it returned a snapshot; an exception of format_dashboard ends the cycle
Aggregate(returned, cache, proc) ==
  LET r == FormatDashboard(returned, cache, proc)
  IN IF r.raised \/ r.value = NoDash
     THEN /\ pc' = "sleep"
          /\ dash' = NoDash
          /\ UNCHANGED hubVars
     ELSE BroadcastCall(r.value)

\* A cycle that begins only when no task is running: a loop that awaits the
\* tasks process_queue launched.
LoopStartAwaitingTasks ==
  /\ pc = "start"
  /\ tasks = {}
  /\ pc' = IF zabbix_auth_token = None THEN "auth" ELSE "fetch"
  /\ UNCHANGED <<zabbix_auth_token, fetched, dash>>
  /\ UNCHANGED storeVars
  /\ UNCHANGED backendVars
  /\ UNCHANGED hubVars

\* A cycle that sends trigger.get whether a token is cached or not.
LoopStartWithoutToken ==
  /\ pc = "start"
  /\ pc' = "fetch"
  /\ UNCHANGED <<zabbix_auth_token, fetched, dash>>
  /\ UNCHANGED storeVars
  /\ UNCHANGED backendVars
  /\ UNCHANGED hubVars

\* lines 214-216 and 168-169: a cycle begins; fetch_data asks for a token
\* when none is cached, else sends trigger.get
LoopStart ==
  /\ pc = "start"
  /\ pc' = IF zabbix_auth_token = None THEN "auth" ELSE "fetch"
  /\ UNCHANGED <<zabbix_auth_token, fetched, dash>>
  /\ UNCHANGED storeVars
  /\ UNCHANGED backendVars
  /\ UNCHANGED hubVars

\* lines 90-97 and 169: get_zabbix_token returns a token; trigger.get is sent
GetToken ==
  /\ pc = "auth"
  /\ zabbix_auth_token' = Token
  /\ pc' = "fetch"
  /\ UNCHANGED <<fetched, dash>>
  /\ UNCHANGED storeVars
  /\ UNCHANGED backendVars
  /\ UNCHANGED hubVars

\* lines 97 and 169-170: get_zabbix_token returns None; fetch_data returns []
GetTokenFails ==
  /\ pc = "auth"
  /\ zabbix_auth_token' = None
  /\ fetched' = NoReply
  /\ Aggregate(<<>>, ai_memory_cache, processing_events)
  /\ UNCHANGED storeVars
  /\ UNCHANGED backendVars

\* lines 185-187: the backend answers trigger.get with an error
FetchError ==
  /\ pc = "fetch"
  /\ zabbix_auth_token' = None
  /\ fetched' = NoReply
  /\ Aggregate(<<>>, ai_memory_cache, processing_events)
  /\ UNCHANGED storeVars
  /\ UNCHANGED backendVars

\* line 191: the request raises
FetchException ==
  /\ pc = "fetch"
  /\ fetched' = NoReply
  /\ Aggregate(<<>>, ai_memory_cache, processing_events)
  /\ UNCHANGED zabbix_auth_token
  /\ UNCHANGED storeVars
  /\ UNCHANGED backendVars

\* lines 188-191 and 217-218: the backend answers with a trigger list;
\* process_queue runs on it, and an exception it raises makes fetch_data
\* return []; then the cycle aggregates what fetch_data returned
FetchResult(triggers, ext) ==
  /\ pc = "fetch"
  /\ LET st == ProcessQueue(Store, triggers, AcksOf(triggers, ext), 1)
     IN /\ processing_events' = st.proc
        /\ handled_events' = st.hand
        /\ ai_memory_cache' = st.cache
        /\ tasks' = st.tasks
        /\ started' = st.started
        /\ firstSeen' = st.from
        /\ Aggregate(IF st.raised THEN <<>> ELSE triggers, st.cache, st.proc)
  /\ fetched' = ReplyOf(triggers)
  /\ UNCHANGED zabbix_auth_token
  /\ UNCHANGED backendVars

\* line 220: the sleep ends; the locals of the cycle and the record of its
\* broadcast are used no more
Sleep ==
  /\ pc = "sleep"
  /\ pc' = "start"
  /\ fetched' = NoReply
  /\ dash' = NoDash
  /\ bCopy' = <<>>
  /\ bIdx' = 0
  /\ bSent' = {}
  /\ bFailed' = {}
  /\ bDisc' = {}
  /\ bAfter' = <<>>
  /\ UNCHANGED <<zabbix_auth_token, ws, active_connections>>
  /\ UNCHANGED storeVars
  /\ UNCHANGED backendVars

\* The pipeline and the scheduler, with no dashboard viewer connected.
Next ==
  \/ LoopStart
  \/ GetToken
  \/ GetTokenFails
  \/ FetchError
  \/ FetchException
  \/ \E triggers \in TriggerLists :
       \E ext \in [Unseen(triggers) -> ExtAckLists] : FetchResult(triggers, ext)
  \/ Sleep
  \/ \E tk \in tasks : \E resp \in AIResponses : AnalyzeReturn(tk, resp)
  \/ \E tk \in tasks : \E recorded \in BOOLEAN : PostReturn(tk, recorded)
  \/ \E tk \in tasks : NotifyReturn(tk)

Spec == Init /\ [][Next]_vars

\* ------------------------------------------------- the process restarts
\* The ids whose enrichment task ran to its end in this lifetime with no
\* comment post of theirs raising.
Completed ==
  {e \in (handled_events \ processing_events) \cap DOMAIN ai_memory_cache :
     started[e] > 0 /\ e \notin postFail}

\* lines 60-64 and 223-224: the process is stopped and started again: the
\* globals are what the module sets them to, no task survives, loop() starts;
\* what the backend recorded stays
Restart ==
  /\ lifetime < MaxRestarts
  /\ lifetime' = lifetime + 1
  /\ prevDone' = prevDone \cup Completed
  /\ zabbix_auth_token' = None
  /\ processing_events' = {}
  /\ handled_events' = {}
  /\ ai_memory_cache' = <<>>
  /\ tasks' = {}
  /\ pc' = "start"
  /\ fetched' = NoReply
  /\ dash' = NoDash
  /\ started' = [e \in EventIds |-> 0]
  /\ firstSeen' = [e \in EventIds |-> NothingSeen]
  /\ postFail' = {}
  /\ UNCHANGED <<posted, triggersArg, written>>
  /\ UNCHANGED hubVars

\* The replies over several lifetimes: well-formed triggers, on events no
\* other actor has written on.
LifeLists == {l \in TriggerLists : \A i \in 1..Len(l) : l[i].defect = "none"}

\* The pipeline and the scheduler over several process lifetimes.
LifeNext ==
  \/ LoopStart
  \/ GetToken
  \/ GetTokenFails
  \/ FetchError
  \/ FetchException
  \/ \E triggers \in LifeLists :
       FetchResult(triggers, [e \in Unseen(triggers) |-> <<>>])
  \/ Sleep
  \/ \E tk \in tasks : \E resp \in AIResponses : AnalyzeReturn(tk, resp)
  \/ \E tk \in tasks : \E recorded \in BOOLEAN : PostReturn(tk, recorded)
  \/ \E tk \in tasks : NotifyReturn(tk)
  \/ Restart

LifeSpec == Init /\ [][LifeNext]_vars

\* ------------------------------------------------ every call returns
\* Every external call of a task returns or fails, every request of the
\* scheduler is answered or fails, and its sleep ends.
FairSpec ==
  /\ Spec
  /\ WF_vars(\E tk \in tasks : \E resp \in AIResponses : AnalyzeReturn(tk, resp))
  /\ WF_vars(\E tk \in tasks : \E recorded \in BOOLEAN : PostReturn(tk, recorded))
  /\ WF_vars(\E tk \in tasks : NotifyReturn(tk))
  /\ WF_vars(LoopStart)
  /\ WF_vars(GetToken \/ GetTokenFails)
  /\ WF_vars(FetchError \/ FetchException \/
               \E triggers \in TriggerLists :
                 \E ext \in [Unseen(triggers) -> ExtAckLists] :
                   FetchResult(triggers, ext))
  /\ WF_vars(Sleep)

\* ------------------------------------------------------ the hub at work
\* The replies of the cycles while viewers come and go: none, or one
\* trigger whose event carries the marker already.
HubReply == <<[eid |-> "E1", defect |-> "none", priority |-> "5"]>>
HubAcks == [e \in {"E1"} |-> <<ExtMarker>>]

HubNext ==
  \/ LoopStart
  \/ GetToken
  \/ GetTokenFails
  \/ FetchError
  \/ FetchException
  \/ \E triggers \in {<<>>, HubReply} :
       FetchResult(triggers, [e \in Unseen(triggers) |-> HubAcks[e]])
  \/ \E ok \in BOOLEAN : BroadcastSend(ok)
  \/ Sleep
  \/ \E s \in Sockets : WsAccept(s)
  \/ \E s \in Sockets : ConnectAppend(s)
  \/ \E s \in Sockets : WsDisconnect(s)

HubSpec == Init /\ [][HubNext]_vars

\* ------------------------------------------------- markers come back
\* What the enrichment service can put into a summary or an action: up to
\* MaxText tokens, the two literals of the marker and whitespace among them.
Texts == SeqsUpTo({IA, CMD, SP, "x"}, MaxText)
MarkerResponses ==
  {[kind |-> "dict", analysis |-> s, command |-> a] : s \in Texts, a \in Texts}
MarkerReply == <<[eid |-> "E1", defect |-> "none", priority |-> "5"]>>

\* One event, enriched with any such texts in one lifetime and fetched again
\* in the next.
MarkerNext ==
  \/ LoopStart
  \/ GetToken
  \/ FetchResult(MarkerReply, [e \in Unseen(MarkerReply) |-> <<>>])
  \/ Sleep
  \/ \E tk \in tasks : \E resp \in MarkerResponses : AnalyzeReturn(tk, resp)
  \/ \E tk \in tasks : \E recorded \in BOOLEAN : PostReturn(tk, recorded)
  \/ \E tk \in tasks : NotifyReturn(tk)
  \/ Restart

MarkerSpec == Init /\ [][MarkerNext]_vars

\* ------------------------------------------- acknowledgements of any form
\* What other actors can have written on an event: nothing, or a message of
\* up to MaxText tokens, well-formed marker or not, after a plain note or not.
AnyAckLists ==
  {<<>>} \cup {<<m>> : m \in Texts} \cup {<<NoteMsg, m>> : m \in Texts}
AnyAckReplies ==
  {<<[eid |-> e, defect |-> "none", priority |-> "5"]>> : e \in EventIds}

\* The cycles on events that carry such acknowledgements.
ParseNext ==
  \/ LoopStart
  \/ GetToken
  \/ \E triggers \in AnyAckReplies :
       \E ext \in [Unseen(triggers) -> AnyAckLists] : FetchResult(triggers, ext)
  \/ Sleep
  \/ \E tk \in tasks : \E resp \in AIResponses : AnalyzeReturn(tk, resp)
  \/ \E tk \in tasks : \E recorded \in BOOLEAN : PostReturn(tk, recorded)
  \/ \E tk \in tasks : NotifyReturn(tk)

ParseSpec == Init /\ [][ParseNext]_vars

\* ------------------------------------------------- a call that hangs
\* The external calls of the task of E1 never return; those of the other
\* tasks do, on events no other actor has written on.
HungFetch ==
  \/ FetchError
  \/ FetchException
  \/ \E triggers \in TriggerLists :
       FetchResult(triggers, [e \in Unseen(triggers) |-> <<>>])

OtherAnalyzeReturn ==
  \E tk \in {t \in tasks : t.eid # "E1"} :
    \E resp \in AIResponses : AnalyzeReturn(tk, resp)
OtherPostReturn ==
  \E tk \in {t \in tasks : t.eid # "E1"} :
    \E recorded \in BOOLEAN : PostReturn(tk, recorded)
OtherNotifyReturn ==
  \E tk \in {t \in tasks : t.eid # "E1"} : NotifyReturn(tk)

HungNext ==
  \/ LoopStart
  \/ GetToken
  \/ GetTokenFails
  \/ HungFetch
  \/ Sleep
  \/ OtherAnalyzeReturn
  \/ OtherPostReturn
  \/ OtherNotifyReturn

HungSpec ==
  /\ Init
  /\ [][HungNext]_vars
  /\ WF_vars(LoopStart)
  /\ WF_vars(GetToken \/ GetTokenFails)
  /\ WF_vars(HungFetch)
  /\ WF_vars(Sleep)
  /\ WF_vars(OtherAnalyzeReturn)
  /\ WF_vars(OtherPostReturn)
  /\ WF_vars(OtherNotifyReturn)

\* ------------------------------------------------- cycles that fail
\* Replies that make a cycle fail: a trigger with an empty host list
\* (process_queue raises), a trigger with a tag that has no value
\* (format_dashboard raises); and replies that do not.
CycleReplies ==
  {<<>>, HubReply,
   <<[eid |-> "E2", defect |-> "no_hosts", priority |-> "5"]>>,
   <<[eid |-> None, defect |-> "tag_no_value", priority |-> "5"]>>}
CycleAcks == [e \in EventIds |-> IF e = "E1" THEN <<ExtMarker>> ELSE <<>>]

CycleFetch ==
  \/ FetchError
  \/ FetchException
  \/ \E triggers \in CycleReplies :
       FetchResult(triggers, [e \in Unseen(triggers) |-> CycleAcks[e]])

CycleNext ==
  \/ LoopStart
  \/ GetToken
  \/ GetTokenFails
  \/ CycleFetch
  \/ \E ok \in BOOLEAN : BroadcastSend(ok)
  \/ Sleep
  \/ \E s \in Sockets : WsAccept(s)
  \/ \E s \in Sockets : ConnectAppend(s)
  \/ \E s \in Sockets : WsDisconnect(s)

\* Every request of the scheduler is answered or fails, every send returns
\* or raises, and the sleep ends; viewers come and go as they please.
CycleSpec ==
  /\ Init
  /\ [][CycleNext]_vars
  /\ WF_vars(LoopStart)
  /\ WF_vars(GetToken \/ GetTokenFails)
  /\ WF_vars(CycleFetch)
  /\ WF_vars(\E ok \in BOOLEAN : BroadcastSend(ok))
  /\ WF_vars(Sleep)

\* ------------------------------------------- format_dashboard on its own
\* The triggers format_dashboard is called with: every severity, an event id
\* or none, tags it can read or not.
FormatTriggers ==
  {t \in AllTriggers : t.eid # "E2" /\ t.defect # "no_hosts"}
FormatLists == SeqsUpTo(FormatTriggers, MaxTriggers)
FormatResults ==
  {<<>>, "E1" :> [summary |-> DiskFull, action |-> DfH]}

\* format_dashboard is about to be called, on some list and some store
FormatInit ==
  /\ triggersArg \in FormatLists
  /\ ai_memory_cache \in FormatResults
  /\ processing_events \in SUBSET {"E1"}
  /\ handled_events = processing_events \cup DOMAIN ai_memory_cache
  /\ pc = "format"
  /\ zabbix_auth_token = Token
  /\ tasks = {}
  /\ fetched = NoReply
  /\ dash = NoDash
  /\ posted = [e \in EventIds |-> <<>>]
  /\ ws = [s \in Sockets |-> "new"]
  /\ active_connections = <<>>
  /\ bCopy = <<>>
  /\ bIdx = 0
  /\ bSent = {}
  /\ bFailed = {}
  /\ bDisc = {}
  /\ bAfter = <<>>
  /\ started = [e \in EventIds |-> 0]
  /\ firstSeen = [e \in EventIds |-> NothingSeen]
  /\ postFail = {}
  /\ prevDone = {}
  /\ written = [e \in EventIds |-> NoResult]
  /\ lifetime = 0

\* lines 193-210: the call returns its snapshot or None, or raises
FormatCall ==
  /\ pc = "format"
  /\ LET r == FormatDashboard(triggersArg, ai_memory_cache, processing_events)
     IN /\ pc' = IF r.raised THEN "raised" ELSE "returned"
        /\ dash' = r.value
  /\ UNCHANGED <<zabbix_auth_token, fetched>>
  /\ UNCHANGED storeVars
  /\ UNCHANGED backendVars
  /\ UNCHANGED hubVars

FormatSpec == FormatInit /\ [][FormatCall]_vars

\* ------------------------------------------------------------ properties
\* The entries of the snapshot of this cycle.
Rendered == IF dash = NoDash THEN {} ELSE Range(dash[1].data)

\* C1: in one process lifetime run_ai_pipeline is started at most once for
\* an event id, and no two tasks of one id are in flight together.
AtMostOnceDispatch ==
  \A e \in EventIds :
    /\ started[e] <= 1
    /\ Cardinality({tk \in tasks : tk.eid = e}) <= 1

\* C1: the task of E1 ended without a result, and a later fetch brought the
\* trigger again: it is rendered as waiting, and was not dispatched again.
RefetchedAfterTaskEnded ==
  /\ started["E1"] = 1
  /\ "E1" \notin processing_events
  /\ \E d \in Rendered : d.id = "E1" /\ d.ai_summary = Aguardando

\* C2: when the first acknowledgement with "IA:" that the first cycle finds on
\* an event is a well-formed marker, no task is ever started for the id, the
\* result map holds the summary and action of that marker, and the snapshot
\* shows them; when a well-formed marker comes later in the list, no task is
\* started either and the id has a result.
RecoveryInsteadOfDispatch ==
  \A e \in EventIds :
    LET o == firstSeen[e]
    IN o.marker # NoText =>
         /\ started[e] = 0
         /\ e \in DOMAIN ai_memory_cache
         /\ o.first = o.marker =>
              /\ ai_memory_cache[e] = [summary |-> MarkerSummary(o.marker),
                                       action |-> MarkerAction(o.marker)]
              /\ \A d \in Rendered :
                   d.id = e => /\ d.ai_summary = MarkerSummary(o.marker)
                               /\ d.ai_action = MarkerAction(o.marker)

\* C2: E2 came with the marker "IA: cpu spike | CMD: top" as its first
\* acknowledgement with "IA:", was recovered and is in the snapshot.
RecoveredFromMarker ==
  /\ firstSeen["E2"].marker = ExtMarker
  /\ firstSeen["E2"].first = ExtMarker
  /\ "E2" \in DOMAIN ai_memory_cache
  /\ \E d \in Rendered : d.id = "E2"

\* C2 as it is written: whenever the acknowledgements hold a well-formed
\* marker, the result is the summary and action of the marker.
RecoveryFromAnyMarker ==
  \A e \in EventIds :
    LET o == firstSeen[e]
    IN o.marker # NoText =>
         /\ started[e] = 0
         /\ e \in DOMAIN ai_memory_cache
         /\ ai_memory_cache[e] = [summary |-> MarkerSummary(o.marker),
                                  action |-> MarkerAction(o.marker)]

\* C3: an event whose task completed in an earlier lifetime, with no comment
\* post raising, is not dispatched again after the restart.
RestartSurvivable == \A e \in prevDone : started[e] = 0

\* C4: every id put into the in-flight set leaves it again.
InFlightCleared ==
  \A e \in EventIds : (e \in processing_events) ~> (e \notin processing_events)

\* C5: no id is both in the in-flight set and a key of the result map.
ProcessingExcludesResult ==
  processing_events \cap DOMAIN ai_memory_cache = {}

\* C6: no id is handled, out of the in-flight set and without a result.
ResultAlwaysStored ==
  \A e \in handled_events \ processing_events : e \in DOMAIN ai_memory_cache

\* C7: a cycle whose reply holds triggers, of which some may have an empty
\* host list, aggregates and broadcasts a snapshot with an entry for each.
MalformedSkippedPerItem ==
  (pc = "sleep" /\ fetched.n > 0 /\ fetched.defects \subseteq {"no_hosts"}) =>
    /\ dash # NoDash
    /\ Len(dash[1].data) = fetched.n

\* C8: a trigger whose id is in the in-flight set is rendered as in progress.
InFlightRenderedInProgress ==
  \A d \in Rendered : d.id \in processing_events => d.ai_summary = Processando

\* C9: when format_dashboard returns for a list that is not empty, it returns
\* a snapshot whose total is the length of the list and whose critical is the
\* number of its triggers of severity '4' or '5', whatever the store holds.
DashboardCounts ==
  (pc = "returned" /\ triggersArg # <<>>) =>
    /\ dash # NoDash
    /\ dash[1].stats.total = Len(triggersArg)
    /\ dash[1].stats.critical =
         Cardinality({i \in 1..Len(triggersArg) :
                        triggersArg[i].priority \in {"4", "5"}})

\* C9: a snapshot was returned for a list with a critical trigger and one
\* that is not, on a store that is not empty.
CountedMixedList ==
  /\ pc = "returned"
  /\ dash # NoDash
  /\ dash[1].stats.critical = 1
  /\ dash[1].stats.total = 2
  /\ ai_memory_cache # <<>>
  /\ processing_events # {}

\* C10: when broadcast returns, every subscriber of the list it copied was
\* sent to, none whose send raised is in active_connections, and every one
\* whose send returned is, unless its own handler called disconnect for it
\* while the broadcast ran.
BroadcastPrunes ==
  (pc = "sleep" /\ bCopy # <<>>) =>
    /\ Range(bCopy) = bSent \cup bFailed
    /\ bFailed \cap Range(bAfter) = {}
    /\ (bSent \ bDisc) \subseteq Range(bAfter)

\* C10: a broadcast returned after one send raised and another returned.
PrunedOneKeptOne ==
  /\ pc = "sleep"
  /\ bFailed # {}
  /\ bSent \ bDisc # {}

\* C10 as it is written: every subscriber whose send returned is in
\* active_connections when broadcast returns.
BroadcastKeepsEverySent ==
  (pc = "sleep" /\ bCopy # <<>>) =>
    /\ Range(bCopy) = bSent \cup bFailed
    /\ bFailed \cap Range(bAfter) = {}
    /\ bSent \subseteq Range(bAfter)

\* C11: a cycle whose fetch yields no trigger (no token, an error reply, a
\* request that raised, an empty result) does not call broadcast: nothing is
\* copied, nothing is sent, and the cycle has no snapshot.
NoBroadcastForEmptyCycle ==
  (pc \in {"sleep", "broadcast"} /\ fetched.n = 0) =>
    /\ pc = "sleep"
    /\ dash = NoDash
    /\ bIdx = 0
    /\ bCopy = <<>>
    /\ bSent \cup bFailed = {}

\* C11: a cycle that fetched nothing ended while a viewer was subscribed and
\* an earlier cycle had handled an event.
EmptyCycleWithSubscriber ==
  /\ pc = "sleep"
  /\ fetched.n = 0
  /\ active_connections # <<>>
  /\ ai_memory_cache # <<>>

\* C12: whatever fails in a cycle (token, fetch, process_queue,
\* format_dashboard, a send of the broadcast), the loop reaches its sleep and
\* begins the next cycle: cycles are begun again and again.
LoopNeverStops ==
  /\ []<>(pc = "sleep")
  /\ []<>(pc = "start")

\* C12: a new cycle begins after process_queue raised in an earlier one (E2
\* is in flight with no task) and after an error reply cleared the token.
CycleAfterFailedCycle ==
  /\ pc = "start"
  /\ "E2" \in processing_events
  /\ tasks = {}
  /\ zabbix_auth_token = None

\* C13: trigger.get is pending only while a token is cached; an error reply
\* clears the token and changes nothing in the state store; a cycle that
\* begins without a token calls get_zabbix_token first; and when that returns
\* no token the cycle ends with nothing fetched and the state store as it was.
TokenLifecycle ==
  [][/\ pc' = "fetch" => zabbix_auth_token' = Token
     /\ FetchError =>
          /\ zabbix_auth_token' = None
          /\ pc' = "sleep"
          /\ UNCHANGED storeVars
     /\ (pc = "start" /\ pc' # "start" /\ zabbix_auth_token = None) =>
          pc' = "auth"
     /\ GetTokenFails =>
          /\ pc' = "sleep"
          /\ fetched' = NoReply
          /\ dash' = NoDash
          /\ UNCHANGED storeVars]_vars

\* C13: get_zabbix_token is being called in a cycle after one that had
\* dispatched an event: an error reply has cleared the token since.
ReauthAfterErrorReply ==
  /\ pc = "auth"
  /\ zabbix_auth_token = None
  /\ tasks # {}

\* C14: the result process_queue recovers from a marker comment this program
\* got recorded is the summary and action the comment was written from.
MarkerRoundTrip ==
  \A e \in DOMAIN ai_memory_cache :
    (started[e] = 0 /\ written[e] # NoResult) => ai_memory_cache[e] = written[e]

\* C15: an entry of the result map is never changed nor removed by a later
\* cycle, a later acknowledgement or a task.
ResultsImmutable ==
  [][\A e \in DOMAIN ai_memory_cache :
       /\ e \in DOMAIN ai_memory_cache'
       /\ ai_memory_cache'[e] = ai_memory_cache[e]]_vars

\* C15: E1 was recovered from an acknowledgement, E2 was enriched and its
\* task ended, and a later cycle fetched both again and rendered the results.
ResultsKeptOverCycles ==
  /\ {"E1", "E2"} \subseteq DOMAIN ai_memory_cache
  /\ started["E1"] = 0
  /\ started["E2"] = 1
  /\ "E2" \notin processing_events
  /\ \A e \in {"E1", "E2"} :
       \E d \in Rendered : d.id = e /\ d.ai_summary = ai_memory_cache[e].summary

\* C16: when the first acknowledgement with "IA:" found on an event is not a
\* well-formed marker, process_queue raises nothing (the cycle has its
\* snapshot), the event is not dispatched and has a result from that cycle
\* on; without the separator "| CMD:" in it the action of the result is "N/A".
ParseFailureAbsorbed ==
  /\ (pc = "sleep" /\ fetched.n > 0) => dash # NoDash
  /\ \A e \in EventIds :
       LET o == firstSeen[e]
       IN (o.first # NoText /\ ~WellFormed(o.first)) =>
            /\ started[e] = 0
            /\ e \in DOMAIN ai_memory_cache
            /\ SepAt(o.first) = 0 => ai_memory_cache[e].action = NA

\* C16: an event whose first acknowledgement with "IA:" has no separator was
\* recorded with the action "N/A", and the cycle ended with its snapshot.
RecordedWithUnknownAction ==
  /\ pc = "sleep"
  /\ dash # NoDash
  /\ firstSeen["E1"].first # NoText
  /\ SepAt(firstSeen["E1"].first) = 0
  /\ "E1" \in DOMAIN ai_memory_cache
  /\ ai_memory_cache["E1"].action = NA

\* C16 as it is written: such an event is recorded with the action "N/A", or
\* is dispatched.
ParseFailureGivesUnknownAction ==
  \A e \in EventIds :
    LET o == firstSeen[e]
    IN (o.first # NoText /\ ~WellFormed(o.first)) =>
         \/ e \in DOMAIN ai_memory_cache /\ ai_memory_cache[e].action = NA
         \/ started[e] > 0

\* C17: in the snapshot of a cycle every trigger that has an event id has it
\* in the handled set or in the result map, and one is rendered as waiting
\* only when it has no event id, or when its id is handled, not in flight and
\* without a result (its task ended without storing one).
WaitingOnlyWithoutIdOrResult ==
  \A d \in Rendered :
    /\ d.id # None => d.id \in handled_events \cup DOMAIN ai_memory_cache
    /\ (d.ai_summary = Aguardando /\ d.id # None) =>
         /\ d.id \in handled_events
         /\ d.id \notin processing_events
         /\ d.id \notin DOMAIN ai_memory_cache
         /\ started[d.id] = 1
         /\ \A tk \in tasks : tk.eid # d.id

\* C17: a snapshot with a trigger without event id, rendered as waiting, and
\* a trigger whose id is in flight, rendered as in progress.
SnapshotWithWaitingEntry ==
  /\ \E d \in Rendered : d.id = None /\ d.ai_summary = Aguardando
  /\ \E d \in Rendered :
       d.id \in processing_events /\ d.ai_summary = Processando

\* C17 as it is written: no trigger of a snapshot is rendered as waiting.
NoneRenderedWaiting == \A d \in Rendered : d.ai_summary # Aguardando

\* C18: with the task of one event hung in an external call, the scheduler
\* still ends and begins cycles again and again, and the task of another
\* event, once created, runs to its end and takes its id out of the
\* in-flight set.
HungTaskBlocksNothing ==
  /\ []<>(pc = "sleep")
  /\ []<>(pc = "start")
  /\ ("E2" \in processing_events /\ \E tk \in tasks : tk.eid = "E2")
       ~> ("E2" \notin processing_events)

\* C18: while the task of E1 hangs in its first call, E2 was dispatched and
\* completed with a result, and a cycle ended with a snapshot that shows E1
\* in progress.
CompletedBesideHungTask ==
  /\ \E tk \in tasks : tk.eid = "E1" /\ tk.pc = "analyze"
  /\ processing_events = {"E1"}
  /\ started["E2"] = 1
  /\ "E2" \in DOMAIN ai_memory_cache
  /\ pc = "sleep"
  /\ \E d \in Rendered : d.id = "E1" /\ d.ai_summary = Processando

\* C19: the in-flight set is a subset of the handled set; the handled set
\* and the keys of the result map only grow; and an id leaves the in-flight
\* set only in the step in which its own task ends.
StoreOnlyGrows ==
  [][/\ processing_events' \subseteq handled_events'
     /\ handled_events \subseteq handled_events'
     /\ DOMAIN ai_memory_cache \subseteq DOMAIN ai_memory_cache'
     /\ \A e \in processing_events \ processing_events' :
          \E tk \in tasks \ tasks' : tk.eid = e]_vars

\* C19: the task of E1 has taken E1 out of the in-flight set, E1 is still
\* handled and has its result, and E2 is in flight.
RemovedByOwnTask ==
  /\ started["E1"] = 1
  /\ "E1" \in handled_events \ processing_events
  /\ "E1" \in DOMAIN ai_memory_cache
  /\ "E2" \in processing_events

\* C20: a marker comment is recorded only for an id that has its result and
\* is written from that result; a comment post that raises leaves the result
\* as it is and the task goes on to the notification; and an id leaves the
\* in-flight set only when the notification of its task ends, with its
\* result stored.
TaskOrdering ==
  [][\A e \in EventIds :
       /\ posted'[e] # posted[e] =>
            /\ e \in DOMAIN ai_memory_cache
            /\ posted'[e] =
                 Append(posted[e], FormatMarker(ai_memory_cache[e].summary,
                                                ai_memory_cache[e].action))
       /\ e \in postFail' \ postFail =>
            /\ ai_memory_cache' = ai_memory_cache
            /\ \E tk \in tasks' : tk.eid = e /\ tk.pc = "notify"
       /\ e \in processing_events \ processing_events' =>
            /\ \E tk \in tasks : tk.eid = e /\ tk.pc = "notify"
            /\ e \in DOMAIN ai_memory_cache']_vars

====
